---- MODULE Spec2Model ----
(***************************************************************************)
(* Model of the DSA problem / solution validator service                   *)
(* (src/main.py, src/validator.py).                                        *)
(*                                                                         *)
(* A request travels: client send -> accept on the event loop ->           *)
(* Depends(get_*_validator) -> async handler body -> validator method      *)
(* (prompt, generate_content, response.json()) -> response_model           *)
(* serialisation -> HTTP response.                                         *)
(*                                                                         *)
(* The Gemini client library is outside the repository.  Its answers are   *)
(* environment choices: generate_content either raises or returns a        *)
(* response whose text is any of RawTexts, and genai.Client(api_key=None)  *)
(* either raises or constructs.  response.json() is modelled as what the   *)
(* code's comment says it is, the JSON parse of the response text.         *)
(*                                                                         *)
(* Texts are sequences of tokens.  A whole JSON document is one token      *)
(* (a member of Docs); the fence marker, the language tag, the newline and *)
(* the blank are tokens of their own, so that a fenced text and the bare   *)
(* document are different texts and parsing decides what each yields.      *)
(***************************************************************************)
EXTENDS Integers, Sequences, FiniteSets, TLC

\* Number of request slots that can be in flight at the same time.
MaxReq == 2

Requests == 1..MaxReq

--------------------------------------------------------------------------
\* JSON values, tagged with their JSON type.

JBool(b) == [t |-> "bool", v |-> b]
JStr(s) == [t |-> "str", v |-> s]
JInt(n) == [t |-> "int", v |-> n]
JList(items) == [t |-> "list", v |-> items]
JObj(fields) == [t |-> "object", v |-> fields]
JNull == [t |-> "null"]

\* Placeholder for "not set yet" in the per-request variables.
None == [kind |-> "none"]

--------------------------------------------------------------------------
\* Texts the gateway can answer with.

\* FENCE stands for the markdown fence marker (three backquotes).
FENCE == "<fence>"
LANGTAG == "json"
NL == "\n"
SP == " "
PROSE == "I cannot analyze this."

Whitespace == {NL, SP}

Docs == {"doc_valid", "doc_invalid", "doc_incorrect", "doc_cases3"}

\* The value each JSON document denotes.
TestCase(i, o, e) ==
    JObj([input |-> JStr(i), expected_output |-> JStr(o), explanation |-> JStr(e)])

DocValue(d) ==
    CASE d = "doc_valid" ->
           JObj([is_valid |-> JBool(TRUE), reason |-> JStr("clear and solvable")])
      [] d = "doc_invalid" ->
           JObj([is_valid |-> JBool(FALSE), reason |-> JStr("ambiguous output format"),
                 suggested_fixes |-> JList(<<JStr("state the output format")>>)])
      [] d = "doc_incorrect" ->
           JObj([is_correct |-> JBool(FALSE),
                 correctness_explanation |-> JStr("fails on empty input"),
                 time_complexity |-> JStr("O(n)"),
                 code_quality_score |-> JInt(4)])
      [] d = "doc_cases3" ->
           JList(<<TestCase("[1,2,3]", "6", "normal case"),
                   TestCase("[]", "0", "empty input"),
                   TestCase("[-1]", "-1", "single negative")>>)

\* The shapes a document arrives in: bare, padded with whitespace, inside a
\* fence with or without a language tag, and a fence with whitespace around it.
Bare(d) == <<d>>
Padded(d) == <<SP, d, NL>>
FencedTagged(d) == <<FENCE, LANGTAG, NL, d, NL, FENCE>>
FencedPlain(d) == <<FENCE, NL, d, NL, FENCE>>
FencedPadded(d) == <<NL, FENCE, LANGTAG, NL, d, NL, FENCE, SP>>

\* Every document arrives bare; a verdict and the test-case array also inside
\* a tagged fence; the verdict also in the other shapes.
ShapesOf(d) ==
    {Bare(d)} \cup
    (IF d \in {"doc_valid", "doc_cases3"} THEN {FencedTagged(d)} ELSE {}) \cup
    (IF d = "doc_valid" THEN {Padded(d), FencedPlain(d), FencedPadded(d)} ELSE {})

RawTexts == UNION {ShapesOf(d) : d \in Docs} \cup {<<PROSE>>, <<>>}

HasFence(text) == \E i \in 1..Len(text) : text[i] = FENCE

\* Messages a failing gateway call raises.
GatewayErrors == {"deadline exceeded", "429 quota exhausted"}

--------------------------------------------------------------------------
\* response.json(): the JSON parse of the response text.  Whitespace around
\* the document is JSON whitespace; anything else around it is an error.

IsBlank(text) == \A i \in 1..Len(text) : text[i] \in Whitespace

FirstInk(text) == CHOOSE i \in 1..Len(text) :
                     text[i] \notin Whitespace /\ \A j \in 1..(i - 1) : text[j] \in Whitespace

LastInk(text) == CHOOSE i \in 1..Len(text) :
                    text[i] \notin Whitespace /\ \A j \in (i + 1)..Len(text) : text[j] \in Whitespace

Strip(text) == IF IsBlank(text) THEN <<>> ELSE SubSeq(text, FirstInk(text), LastInk(text))

json_loads(text) ==
    LET s == Strip(text)
    IN  IF s = <<>> \/ s[1] \notin Docs
        THEN [ok |-> FALSE, error |-> "Expecting value"]
        ELSE IF Len(s) > 1
        THEN [ok |-> FALSE, error |-> "Extra data"]
        ELSE [ok |-> TRUE, value |-> DocValue(s[1])]

--------------------------------------------------------------------------
\* validator.py

MODEL_NAME == "gemini-2.0-flash"

\* max_output_tokens of the three calls.
ProblemMaxTokens == 1024
SolutionMaxTokens == 1500
TestCasesMaxTokens == 2000

\* genai.Client(api_key=...) with a key constructs.  Without one the library
\* decides: clientBuilt is its choice.
ValidatorInit(class, api_key, clientBuilt) ==
    IF api_key # "" \/ clientBuilt
    THEN [kind |-> class, api_key |-> api_key, model |-> MODEL_NAME]
    ELSE [kind |-> "raise", msg |-> "Missing key inputs argument"]

\* The three prompts (f-strings): the template and what is interpolated.
ProblemPrompt(a) ==
    [template |-> "validate_problem", problem_statement |-> a.problem_statement]

SolutionPrompt(a) ==
    [template |-> "check_solution", problem_statement |-> a.problem_statement,
     language |-> a.language, solution_code |-> a.solution_code]

TestCasesPrompt(a) ==
    [template |-> "generate_test_cases", num_test_cases |-> a.num_test_cases,
     problem_statement |-> a.problem_statement]

\* The arguments of client.models.generate_content.
GenerateContentCall(v, prompt, temperature, max_tokens) ==
    [model |-> v.model, contents |-> <<prompt>>,
     generation_config |-> [temperature |-> temperature,
                            max_output_tokens |-> max_tokens,
                            response_mime_type |-> "application/json"]]

\* What each method does, after its generate_content call, with the gateway's
\* outcome gw, which is [kind |-> "raise", msg] or [kind |-> "response", text].
\* The arguments went into the prompt and are not read again.
Raise(msg) == [kind |-> "raise", msg |-> msg]
Return(value) == [kind |-> "return", value |-> value]

\* Variant of validate_problem that fills in a default suggested_fixes.
validate_problem_with_defaults(problem_statement, gw) ==
    IF gw.kind = "raise" THEN Raise(gw.msg)
    ELSE LET p == json_loads(gw.text)
         IN  IF p.ok /\ p.value.t = "object"
             THEN Return(JObj([k \in DOMAIN p.value.v \cup {"suggested_fixes"} |->
                                  IF k \in DOMAIN p.value.v THEN p.value.v[k]
                                  ELSE JList(<<>>)]))
             ELSE IF p.ok THEN Return(p.value)
             ELSE Return(JObj([is_valid |-> JBool(FALSE),
                               reason |-> JStr("Error processing response: " \o p.error),
                               raw_response |-> [t |-> "text", v |-> gw.text]]))

DSAProblemValidator_validate_problem(problem_statement, gw) ==
    IF gw.kind = "raise" THEN Raise(gw.msg)
    ELSE LET p == json_loads(gw.text)
         IN  IF p.ok THEN Return(p.value)
             ELSE Return(JObj([is_valid |-> JBool(FALSE),
                               reason |-> JStr("Error processing response: " \o p.error),
                               raw_response |-> [t |-> "text", v |-> gw.text]]))

SolutionValidator_check_solution(problem_statement, solution_code, language, gw) ==
    IF gw.kind = "raise" THEN Raise(gw.msg)
    ELSE LET p == json_loads(gw.text)
         IN  IF p.ok THEN Return(p.value)
             ELSE Return(JObj([is_correct |-> JBool(FALSE),
                               correctness_explanation |->
                                   JStr("Error processing response: " \o p.error),
                               raw_response |-> [t |-> "text", v |-> gw.text]]))

\* Variant of generate_test_cases that cuts or pads the list to num_test_cases.
generate_test_cases_exact_count(problem_statement, num_test_cases, gw) ==
    IF gw.kind = "raise" THEN Raise(gw.msg)
    ELSE LET p == json_loads(gw.text)
         IN  IF p.ok /\ p.value.t = "list"
             THEN Return(JList([i \in 1..num_test_cases |->
                                   IF i <= Len(p.value.v) THEN p.value.v[i]
                                   ELSE TestCase("", "", "")]))
             ELSE IF p.ok THEN Return(p.value)
             ELSE Return(JList(<<JObj([error |->
                                           JStr("Failed to generate test cases: " \o p.error),
                                       raw_response |-> [t |-> "text", v |-> gw.text]])>>))

SolutionValidator_generate_test_cases(problem_statement, num_test_cases, gw) ==
    IF gw.kind = "raise" THEN Raise(gw.msg)
    ELSE LET p == json_loads(gw.text)
         IN  IF p.ok THEN Return(p.value)
             ELSE Return(JList(<<JObj([error |->
                                           JStr("Failed to generate test cases: " \o p.error),
                                       raw_response |-> [t |-> "text", v |-> gw.text]])>>))

--------------------------------------------------------------------------
\* main.py

\* Default of TestCasesRequest.num_test_cases.
DefaultNumTestCases == 5

Routes == {"/validate-problem", "/validate-solution", "/generate-test-cases", "/health"}

Problems == {"Find max subarray sum"}

\* Requested counts: the smallest and the default.
Counts == {1, DefaultNumTestCases}

\* The request bodies each route accepts.
RequestBodies(route) ==
    CASE route = "/validate-problem" -> [problem_statement : Problems]
      [] route = "/validate-solution" ->
           [problem_statement : Problems, solution_code : {"return max(nums)"},
            language : {"python"}]
      [] route = "/generate-test-cases" ->
           [problem_statement : Problems, num_test_cases : Counts]
      [] route = "/health" -> {None}

\* The response models: field -> <<JSON type, required>>.
ValidationResponse ==
    [is_valid |-> <<"bool", TRUE>>, reason |-> <<"str", TRUE>>,
     suggested_fixes |-> <<"list", FALSE>>]

SolutionResponse ==
    [is_correct |-> <<"bool", TRUE>>, correctness_explanation |-> <<"str", TRUE>>,
     time_complexity |-> <<"str", FALSE>>, space_complexity |-> <<"str", FALSE>>,
     edge_cases_handled |-> <<"bool", FALSE>>, edge_cases_explanation |-> <<"str", FALSE>>,
     code_quality_score |-> <<"int", FALSE>>, improvement_suggestions |-> <<"list", FALSE>>]

TestCaseItem ==
    [input |-> <<"str", TRUE>>, expected_output |-> <<"str", TRUE>>,
     explanation |-> <<"str", TRUE>>]

\* Validation of a returned value against a response model, and the body the
\* framework sends: the declared fields only, an unset optional field as null.
FieldOk(model, obj, k) ==
    IF k \in DOMAIN obj
    THEN obj[k].t = model[k][1] \/ (~model[k][2] /\ obj[k].t = "null")
    ELSE ~model[k][2]

ModelValidate(model, val) ==
    val.t = "object" /\ \A k \in DOMAIN model : FieldOk(model, val.v, k)

ModelDump(model, val) ==
    JObj([k \in DOMAIN model |-> IF k \in DOMAIN val.v THEN val.v[k] ELSE JNull])

Ok200(body) == [status |-> 200, body |-> body]
HTTPException(status, detail) == [status |-> status, detail |-> detail]

\* An exception the handler does not catch (raised in a dependency, or by the
\* validation of the returned value): the server's plain 500.
InternalServerError == HTTPException(500, "Internal Server Error")

serialize_response(model, val) ==
    IF ModelValidate(model, val) THEN Ok200(ModelDump(model, val))
    ELSE InternalServerError

serialize_list_response(model, val) ==
    IF val.t = "list" /\ \A i \in 1..Len(val.v) : ModelValidate(model, val.v[i])
    THEN Ok200(JList([i \in 1..Len(val.v) |-> ModelDump(model, val.v[i])]))
    ELSE InternalServerError

\* The endpoints, from the validator method's outcome to the HTTP response.
\* Variant of the endpoint that answers a negative verdict as an error.
validate_problem_negative_is_error(out) ==
    IF out.kind = "raise"
    THEN HTTPException(500, "Validation error: " \o out.msg)
    ELSE IF /\ out.value.t = "object"
            /\ "is_valid" \in DOMAIN out.value.v
            /\ out.value.v.is_valid = JBool(FALSE)
    THEN HTTPException(500, "Validation error: problem is not valid")
    ELSE serialize_response(ValidationResponse, out.value)

validate_problem(out) ==
    IF out.kind = "raise"
    THEN HTTPException(500, "Validation error: " \o out.msg)
    ELSE serialize_response(ValidationResponse, out.value)

\* Variant of the endpoint that drops the exception's message.
validate_solution_generic_detail(out) ==
    IF out.kind = "raise"
    THEN HTTPException(500, "Solution validation error")
    ELSE serialize_response(SolutionResponse, out.value)

validate_solution(out) ==
    IF out.kind = "raise"
    THEN HTTPException(500, "Solution validation error: " \o out.msg)
    ELSE serialize_response(SolutionResponse, out.value)

generate_test_cases(out) ==
    IF out.kind = "raise"
    THEN HTTPException(500, "Test case generation error: " \o out.msg)
    ELSE serialize_list_response(TestCaseItem, out.value)

health_check(key) ==
    Ok200(JObj([status |-> JStr("healthy"), gemini_api_configured |-> JBool(key # "")]))

\* Depends(get_problem_validator) / Depends(get_solution_validator).
get_problem_validator(key, clientBuilt) ==
    ValidatorInit("DSAProblemValidator", key, clientBuilt)

get_solution_validator(key, clientBuilt) ==
    ValidatorInit("SolutionValidator", key, clientBuilt)

--------------------------------------------------------------------------
\* State.

VARIABLES
    GEMINI_API_KEY,  \* the environment's key as read at import; "" when unset
    warned,          \* whether the start-up warning was printed
    loop,            \* the requests whose handler holds the event loop: {} or {r}
    pc,              \* per request: where it is
    route,           \* per request: the route it was sent to
    args,            \* per request: its body
    validator,       \* per request: the instance its dependency made
    gwCall,          \* per request: the arguments of its generate_content call
    gwCalls,         \* per request: how many generate_content calls it has made
    gwOut,           \* per request: what the gateway answered
    result,          \* per request: what the validator method returned or raised
    resp             \* per request: the HTTP response

vars == <<GEMINI_API_KEY, warned, loop, pc, route, args, validator, gwCall, gwCalls,
          gwOut, result, resp>>

Init ==
    /\ GEMINI_API_KEY \in {"", "test-key"}
    /\ warned = (GEMINI_API_KEY = "")
    /\ loop = {}
    /\ pc = [r \in Requests |-> "none"]
    /\ route = [r \in Requests |-> "none"]
    /\ args = [r \in Requests |-> None]
    /\ validator = [r \in Requests |-> None]
    /\ gwCall = [r \in Requests |-> None]
    /\ gwCalls = [r \in Requests |-> 0]
    /\ gwOut = [r \in Requests |-> None]
    /\ result = [r \in Requests |-> None]
    /\ resp = [r \in Requests |-> None]

--------------------------------------------------------------------------
\* Dispatch by route.

GatewayRoutes == Routes \ {"/health"}

DependencyOf(rt, key, clientBuilt) ==
    IF rt = "/validate-problem" THEN get_problem_validator(key, clientBuilt)
    ELSE get_solution_validator(key, clientBuilt)

CallOf(rt, v, a) ==
    CASE rt = "/validate-problem" ->
           GenerateContentCall(v, ProblemPrompt(a), "0.1", ProblemMaxTokens)
      [] rt = "/validate-solution" ->
           GenerateContentCall(v, SolutionPrompt(a), "0.2", SolutionMaxTokens)
      [] rt = "/generate-test-cases" ->
           GenerateContentCall(v, TestCasesPrompt(a), "0.3", TestCasesMaxTokens)

MethodOf(rt, a, gw) ==
    CASE rt = "/validate-problem" ->
           DSAProblemValidator_validate_problem(a.problem_statement, gw)
      [] rt = "/validate-solution" ->
           SolutionValidator_check_solution(a.problem_statement, a.solution_code,
                                            a.language, gw)
      [] rt = "/generate-test-cases" ->
           SolutionValidator_generate_test_cases(a.problem_statement, a.num_test_cases, gw)

EndpointOf(rt, out) ==
    CASE rt = "/validate-problem" -> validate_problem(out)
      [] rt = "/validate-solution" -> validate_solution(out)
      [] rt = "/generate-test-cases" -> generate_test_cases(out)

--------------------------------------------------------------------------
\* Actions.

\* A client sends a request.
Send(r) ==
    /\ pc[r] = "none"
    /\ \E rt \in Routes : \E a \in RequestBodies(rt) :
          /\ route' = [route EXCEPT ![r] = rt]
          /\ args' = [args EXCEPT ![r] = a]
    /\ pc' = [pc EXCEPT ![r] = "pending"]
    /\ UNCHANGED <<GEMINI_API_KEY, warned, loop, validator, gwCall, gwCalls, gwOut,
                   result, resp>>

\* GET /health: no dependency, no await; runs on the event loop when it is free.
HealthCheck(r) ==
    /\ pc[r] = "pending"
    /\ route[r] = "/health"
    /\ loop = {}
    /\ resp' = [resp EXCEPT ![r] = health_check(GEMINI_API_KEY)]
    /\ pc' = [pc EXCEPT ![r] = "done"]
    /\ UNCHANGED <<GEMINI_API_KEY, warned, loop, route, args, validator, gwCall,
                   gwCalls, gwOut, result>>

\* The event loop reads a POST and hands its (sync) dependency to the thread pool.
Accept(r) ==
    /\ pc[r] = "pending"
    /\ route[r] \in GatewayRoutes
    /\ loop = {}
    /\ pc' = [pc EXCEPT ![r] = "depends"]
    /\ UNCHANGED <<GEMINI_API_KEY, warned, loop, route, args, validator, gwCall,
                   gwCalls, gwOut, result, resp>>

\* The dependency runs in a worker thread and constructs the validator.
ResolveDependency(r) ==
    /\ pc[r] = "depends"
    /\ \E clientBuilt \in BOOLEAN :
          validator' = [validator EXCEPT
                           ![r] = DependencyOf(route[r], GEMINI_API_KEY, clientBuilt)]
    /\ pc' = [pc EXCEPT ![r] = "resolved"]
    /\ UNCHANGED <<GEMINI_API_KEY, warned, loop, route, args, gwCall, gwCalls, gwOut,
                   result, resp>>

\* The dependency raised: the handler never runs and the server answers 500.
DependencyRaised(r) ==
    /\ pc[r] = "resolved"
    /\ validator[r].kind = "raise"
    /\ loop = {}
    /\ resp' = [resp EXCEPT ![r] = InternalServerError]
    /\ pc' = [pc EXCEPT ![r] = "done"]
    /\ UNCHANGED <<GEMINI_API_KEY, warned, loop, route, args, validator, gwCall,
                   gwCalls, gwOut, result>>

\* The handler body starts on the event loop, the validator method builds its
\* prompt and calls generate_content, a blocking call made without await: the
\* event loop is held until it returns.
CallGateway(r) ==
    /\ pc[r] = "resolved"
    /\ validator[r].kind # "raise"
    /\ loop = {}
    /\ gwCall' = [gwCall EXCEPT ![r] = CallOf(route[r], validator[r], args[r])]
    /\ gwCalls' = [gwCalls EXCEPT ![r] = @ + 1]
    /\ loop' = {r}
    /\ pc' = [pc EXCEPT ![r] = "in_gateway"]
    /\ UNCHANGED <<GEMINI_API_KEY, warned, route, args, validator, gwOut, result, resp>>

\* generate_content ends with gw; the method and the endpoint run to the end.
Finish(r, gw) ==
    /\ gwOut' = [gwOut EXCEPT ![r] = gw]
    /\ result' = [result EXCEPT ![r] = MethodOf(route[r], args[r], gw)]
    /\ resp' = [resp EXCEPT ![r] = EndpointOf(route[r], MethodOf(route[r], args[r], gw))]
    /\ loop' = {}
    /\ pc' = [pc EXCEPT ![r] = "done"]
    /\ UNCHANGED <<GEMINI_API_KEY, warned, route, args, validator, gwCall, gwCalls>>

\* Variant with one validator shared by all requests that keeps the last
\* result: the answer of every request not yet sent is read from it.
GatewayReturns_shared_result(r) ==
    /\ pc[r] = "in_gateway"
    /\ \E text \in RawTexts :
          LET gw == [kind |-> "response", text |-> text]
              out == MethodOf(route[r], args[r], gw)
          IN  /\ gwOut' = [gwOut EXCEPT ![r] = gw]
              /\ result' = [q \in Requests |->
                               IF q = r \/ pc[q] = "done" THEN out ELSE result[q]]
              /\ resp' = [q \in Requests |->
                             IF q = r \/ pc[q] = "done"
                             THEN EndpointOf(route[r], out) ELSE resp[q]]
    /\ loop' = {}
    /\ pc' = [pc EXCEPT ![r] = "done"]
    /\ UNCHANGED <<GEMINI_API_KEY, warned, route, args, validator, gwCall, gwCalls>>

GatewayReturns(r) ==
    /\ pc[r] = "in_gateway"
    /\ \E text \in RawTexts : Finish(r, [kind |-> "response", text |-> text])

GatewayRaises(r) ==
    /\ pc[r] = "in_gateway"
    /\ \E msg \in GatewayErrors : Finish(r, [kind |-> "raise", msg |-> msg])

\* The response is sent and everything the request made is dropped.
Close(r) ==
    /\ pc[r] = "done"
    /\ pc' = [pc EXCEPT ![r] = "none"]
    /\ route' = [route EXCEPT ![r] = "none"]
    /\ args' = [args EXCEPT ![r] = None]
    /\ validator' = [validator EXCEPT ![r] = None]
    /\ gwCall' = [gwCall EXCEPT ![r] = None]
    /\ gwCalls' = [gwCalls EXCEPT ![r] = 0]
    /\ gwOut' = [gwOut EXCEPT ![r] = None]
    /\ result' = [result EXCEPT ![r] = None]
    /\ resp' = [resp EXCEPT ![r] = None]
    /\ UNCHANGED <<GEMINI_API_KEY, warned, loop>>

\* The steps a received request takes on the server.
Progress(r) ==
    \/ HealthCheck(r)
    \/ Accept(r)
    \/ ResolveDependency(r)
    \/ DependencyRaised(r)
    \/ CallGateway(r)

Next ==
    \E r \in Requests :
        \/ Send(r)
        \/ HealthCheck(r)
        \/ Accept(r)
        \/ ResolveDependency(r)
        \/ DependencyRaised(r)
        \/ CallGateway(r)
        \/ GatewayReturns(r)
        \/ GatewayRaises(r)
        \/ Close(r)

Spec == Init /\ [][Next]_vars

--------------------------------------------------------------------------
\* Properties.

IsResponse(r) == gwOut[r].kind = "response"
IsFailure(r) == gwOut[r].kind = "raise"

\* A text holding no JSON document at all, fenced or not.
NoDocument(text) == \A i \in 1..Len(text) : text[i] \notin Docs

ErrorPrefixes ==
    {"Validation error: ", "Solution validation error: ", "Test case generation error: "}

\* C1: when the gateway's text cannot be parsed as JSON, the operation ends in
\* an extraction failure that propagates as a system error; no verdict or
\* test-case list of the system's own making is returned as a success.
C1_UnparseableTextIsAnError ==
    \A r \in Requests :
        (IsResponse(r) /\ NoDocument(gwOut[r].text))
            => (result[r].kind = "raise" /\ resp[r].status = 500)

\* C2: when the gateway call fails, the request is answered with a 500 whose
\* detail ends with the gateway's own error message, and carries no body.
C2_GatewayFailureIs500WithMessage ==
    \A r \in Requests :
        IsFailure(r) =>
            /\ resp[r].status = 500
            /\ \E prefix \in ErrorPrefixes : resp[r].detail = prefix \o gwOut[r].msg
            /\ "body" \notin DOMAIN resp[r]

C2_Witness ==
    \E r \in Requests : \E q \in Requests :
        /\ IsFailure(r) /\ pc[r] = "done" /\ route[r] = "/validate-solution"
        /\ IsFailure(q) /\ pc[q] = "done" /\ route[q] = "/generate-test-cases"

MissingKeyDetails ==
    {"Missing key inputs argument"} \cup
    {prefix \o "Missing key inputs argument" : prefix \in ErrorPrefixes}

\* C3: without an API key the process starts, every gateway-dependent request
\* fails with a configuration error before any gateway call is made, and
\* /health reports the gateway as not configured.
C3_MissingKeyFailsFast ==
    GEMINI_API_KEY = "" =>
        /\ warned
        /\ \A r \in Requests :
              /\ gwCalls[r] = 0
              /\ (pc[r] = "done" /\ route[r] \in GatewayRoutes) =>
                     (resp[r].status = 500 /\ resp[r].detail \in MissingKeyDetails)
              /\ (pc[r] = "done" /\ route[r] = "/health") =>
                     resp[r].body.v.gemini_api_configured = JBool(FALSE)

\* The parts of C3 that do hold: the process starts with a warning, and
\* /health reports whether the key is set.
HealthReportsConfiguration ==
    /\ warned = (GEMINI_API_KEY = "")
    /\ \A r \in Requests :
          (pc[r] = "done" /\ route[r] = "/health") =>
              /\ resp[r].status = 200
              /\ resp[r].body.v.gemini_api_configured = JBool(GEMINI_API_KEY # "")

\* C4: while one request waits for its gateway call, every other request that
\* was sent and is not answered yet can take its next step.
C4_SlowCallDoesNotStall ==
    \A r \in Requests : \A q \in Requests \ {r} :
        (pc[r] = "in_gateway" /\ pc[q] \in {"pending", "depends", "resolved"})
            => ENABLED Progress(q)

\* C5: a text with no fence that is valid JSON is returned as exactly the
\* parsed value; for the reply {"is_valid": true, "reason": "clear and
\* solvable"} that is a verdict with those two fields and no suggested_fixes.
C5_UnfencedJsonReturnedUnchanged ==
    \A r \in Requests :
        /\ \A d \in Docs :
              (/\ IsResponse(r)
               /\ ~HasFence(gwOut[r].text)
               /\ gwOut[r].text \in {Bare(d), Padded(d)})
                  => result[r] = Return(DocValue(d))
        /\ (IsResponse(r) /\ gwOut[r].text \in {Bare("doc_valid"), Padded("doc_valid")})
              => /\ result[r].kind = "return"
                 /\ DOMAIN result[r].value.v = {"is_valid", "reason"}
                 /\ result[r].value.v.is_valid = JBool(TRUE)
                 /\ result[r].value.v.reason = JStr("clear and solvable")

C5_Witness ==
    \E r \in Requests : \E q \in Requests :
        /\ pc[r] = "done" /\ route[r] = "/validate-problem"
        /\ IsResponse(r) /\ gwOut[r].text = Bare("doc_valid")
        /\ pc[q] = "done" /\ route[q] = "/validate-problem"
        /\ IsResponse(q) /\ gwOut[q].text = Padded("doc_valid")

\* C6: a JSON value wrapped in a code fence (with or without a language tag,
\* with or without whitespace around it) yields the same result as the value
\* without the fence.
C6_FencedSameAsUnfenced ==
    \A r \in Requests : \A d \in Docs :
        (IsResponse(r) /\ gwOut[r].text \in {FencedTagged(d), FencedPlain(d), FencedPadded(d)})
            => result[r] = Return(DocValue(d))

SameItems(items, expected) ==
    /\ Len(items) = Len(expected)
    /\ \A i \in 1..Len(expected) : \A k \in DOMAIN expected[i].v :
          items[i].v[k] = expected[i].v[k]

\* C7: generate_test_cases returns exactly the items of the array the model
\* returned, in order, whatever count was asked for; so does the route.
C7_TestCasesPassedThrough ==
    \A r \in Requests :
        (/\ route[r] = "/generate-test-cases"
         /\ IsResponse(r)
         /\ gwOut[r].text = Bare("doc_cases3"))
            => /\ result[r].kind = "return"
               /\ result[r].value.t = "list"
               /\ Len(result[r].value.v) = 3
               /\ SameItems(result[r].value.v, DocValue("doc_cases3").v)
               /\ resp[r].status = 200
               /\ SameItems(resp[r].body.v, DocValue("doc_cases3").v)

C7_Witness ==
    \E r \in Requests : \E q \in Requests :
        /\ pc[r] = "done" /\ route[r] = "/generate-test-cases"
        /\ args[r].num_test_cases = DefaultNumTestCases
        /\ IsResponse(r) /\ gwOut[r].text = Bare("doc_cases3")
        /\ pc[q] = "done" /\ route[q] = "/generate-test-cases"
        /\ args[q].num_test_cases = 1
        /\ IsResponse(q) /\ gwOut[q].text = Bare("doc_cases3")

NegativeVerdict(rt) ==
    IF rt = "/validate-problem" THEN "doc_invalid" ELSE "doc_incorrect"

\* C8: a parsed verdict whose boolean is false (is_valid on /validate-problem,
\* is_correct on /validate-solution) is answered 200 with that verdict.
C8_NegativeVerdictIsSuccess ==
    \A r \in Requests :
        (/\ route[r] \in {"/validate-problem", "/validate-solution"}
         /\ IsResponse(r)
         /\ gwOut[r].text = Bare(NegativeVerdict(route[r])))
            => /\ resp[r].status = 200
               /\ \A k \in DOMAIN DocValue(NegativeVerdict(route[r])).v :
                     resp[r].body.v[k] = DocValue(NegativeVerdict(route[r])).v[k]

C8_Witness ==
    \E r \in Requests : \E q \in Requests :
        /\ pc[r] = "done" /\ route[r] = "/validate-problem"
        /\ IsResponse(r) /\ gwOut[r].text = Bare("doc_invalid")
        /\ resp[r].body.v.is_valid = JBool(FALSE)
        /\ pc[q] = "done" /\ route[q] = "/validate-solution"
        /\ IsResponse(q) /\ gwOut[q].text = Bare("doc_incorrect")
        /\ resp[q].body.v.is_correct = JBool(FALSE)

SameInputs(r, q) ==
    /\ route[r] = route[q]
    /\ args[r] = args[q]
    /\ validator[r] = validator[q]
    /\ gwOut[r] = gwOut[q]

OwnState(r) ==
    <<route[r], args[r], validator[r], gwCall[r], gwCalls[r], gwOut[r], result[r], resp[r]>>

Determined ==
    \A r \in Requests : \A q \in Requests :
        (pc[r] = "done" /\ pc[q] = "done" /\ SameInputs(r, q))
            => (result[r] = result[q] /\ resp[r] = resp[q])

Untouched ==
    \A r \in Requests : (pc'[r] = pc[r]) => (OwnState(r)' = OwnState(r))

\* C9: requests are independent.  Two answered requests with the same route,
\* body, validator and gateway outcome have the same result and response, and
\* a step that leaves a request where it is leaves everything of it unchanged.
C9_RequestsIndependent == []Determined /\ [][Untouched]_vars

C9_Witness ==
    \E r \in Requests : \E q \in Requests :
        /\ pc[r] = "done" /\ pc[q] = "in_gateway"
        /\ route[r] = route[q] /\ route[r] = "/validate-problem"
        /\ IsResponse(r) /\ gwOut[r].text = Bare("doc_invalid")

ExtractionFailed(r) == IsResponse(r) /\ ~json_loads(gwOut[r].text).ok

\* C10: no retries.  A request calls the gateway at most once, after its
\* prompt is built and before extraction, and a gateway failure or an
\* extraction failure is propagated, not recovered.
C10_NoRetriesFailuresPropagate ==
    \A r \in Requests :
        /\ gwCalls[r] <= 1
        /\ (gwCalls[r] = 1) => (gwCall[r] # None)
        /\ (gwOut[r] # None) => (gwCalls[r] = 1)
        /\ (IsFailure(r) \/ ExtractionFailed(r))
              => (result[r].kind = "raise" /\ resp[r].status = 500)

\* The part of C10 that does hold: at most one call, made after the prompt is
\* built and before anything is extracted, and a gateway failure is raised on.
AtMostOneGatewayCall ==
    \A r \in Requests :
        /\ gwCalls[r] <= 1
        /\ (gwCalls[r] = 1) => (gwCall[r] # None)
        /\ (gwOut[r] # None) => (gwCalls[r] = 1)
        /\ IsFailure(r) => (result[r] = Raise(gwOut[r].msg) /\ resp[r].status = 500)

====
